---- MODULE Spec2Model ----
(***************************************************************************)
(* Verification model of detray's detector consistency checker             *)
(* (core/include/detray/utils/consistency_checker.hpp).                    *)
(*                                                                         *)
(* The detector is read-only input of check_consistency.  A run of the     *)
(* checker is a sequence of steps, one per check the code performs, in the *)
(* order in which the code performs them; a throw ends the run in the      *)
(* state "fault", the final return in the state "done".                    *)
(***************************************************************************)
EXTENDS Integers, Sequences, FiniteSets, TLC

\* ------------------------------------------------------------------ bounds
MaxVols == 2
MaxSurfs == 2

\* dindex_invalid: the largest value of the index type, the value
\* detail::is_invalid_value tests for (the model's dindex is 31 bits wide:
\* TLC's integers are 32-bit signed; no index arithmetic of the consistency
\* checker overflows)
dindex_invalid == 2147483647

is_invalid_value(v) == v = dindex_invalid

\* number of sub-collections of the material, mask and accelerator stores
\* (brute force finder and one grid type for the accelerators)
StoreTypes == 1..2

\* ------------------------------------------------------------- data model
\* material links of a surface or volume descriptor together with the
\* material the link points to: a map is a sequence of bins, a bin a
\* sequence of slabs, a slab TRUE when it is not the default/empty slab
NoMat == [has |-> FALSE, bins |-> <<>>]
GoodMap == [has |-> TRUE, bins |-> << <<TRUE>> >>]
BadSlabMap == [has |-> TRUE, bins |-> << <<FALSE>> >>]

\* placeholder printed in a fault that names no surface
NoSf == [index |-> dindex_invalid, volume |-> dindex_invalid, ok |-> FALSE,
         portal |-> FALSE, vlink |-> dindex_invalid, mat |-> NoMat]

\* surface descriptor: barcode (index, owning volume, portal flag), the
\* volume link of its mask, its material link; ok is FALSE when the
\* descriptor is broken in a way its self-check detects by itself
SfDesc(i, v, l) ==
    [index |-> i, volume |-> v, ok |-> TRUE, portal |-> TRUE, vlink |-> l,
     mat |-> NoMat]

RemoveAt(s, k) == SubSeq(s, 1, k - 1) \o SubSeq(s, k + 1, Len(s))

RECURSIVE OwnedBy(_, _)
\* the descriptors of sfs whose owning volume is v, in table order
OwnedBy(sfs, v) ==
    IF sfs = <<>> THEN <<>>
    ELSE (IF Head(sfs).volume = v THEN <<Head(sfs)>> ELSE <<>>)
         \o OwnedBy(Tail(sfs), v)

\* A well-formed detector of nv volumes and ns surfaces: surface i belongs
\* to volume i mod nv (spread) or to volume 0, and links to the next volume;
\* every volume holds its surfaces in its brute force finder and has no grid.
BaseSurfaces(nv, ns, spread) ==
    [i \in 1..ns |->
        SfDesc(i - 1, IF spread THEN (i - 1) % nv ELSE 0, i % nv)]

BaseDetector(nv, ns, spread) ==
    [volumes |-> [v \in 1..nv |->
                    [index |-> v - 1, ok |-> TRUE, mat |-> NoMat,
                     accel |-> <<OwnedBy(BaseSurfaces(nv, ns, spread), v - 1),
                                 <<>> >>]],
     surfaces |-> BaseSurfaces(nv, ns, spread),
     transforms |-> ns,
     masks |-> <<1, 0>>,
     materials |-> <<1, 0>>,
     vfinder |-> <<0>>]

Bases ==
    {BaseDetector(nv, ns, spread) :
        nv \in 1..MaxVols, ns \in 1..MaxSurfs, spread \in BOOLEAN}

\* the descriptors that differ from s in one field
SfVariants(s) ==
    {[s EXCEPT !.index = j] : j \in 0..MaxSurfs}
    \cup {[s EXCEPT !.volume = j] : j \in 0..MaxVols}
    \cup {[s EXCEPT !.vlink = j] : j \in (0..MaxVols) \cup {dindex_invalid}}
    \cup {[s EXCEPT !.ok = FALSE], [s EXCEPT !.portal = ~s.portal]}
    \cup {[s EXCEPT !.mat = m] : m \in {NoMat, GoodMap, BadSlabMap}}

VolVariants(v) ==
    {[v EXCEPT !.index = j] : j \in 0..MaxVols}
    \cup {[v EXCEPT !.ok = FALSE]}
    \cup {[v EXCEPT !.mat = m] : m \in {NoMat, GoodMap, BadSlabMap}}

StoreVariants == {<<0, 0>>, <<1, 0>>, <<0, 1>>, <<1, 1>>}

\* the acceleration structures of volume position v with entry e of
\* structure k replaced by one of its variants, removed, or with a copy of
\* a descriptor of the surface table appended
AccelEdits(d, v, k) ==
    LET acc == d.volumes[v].accel[k] IN
    {[d EXCEPT !.volumes[v].accel[k][e] = s] :
        <<e, s>> \in UNION {{<<e, s>> : s \in SfVariants(acc[e])} :
                              e \in DOMAIN acc}}
    \cup {[d EXCEPT !.volumes[v].accel[k] = RemoveAt(acc, e)] :
            e \in DOMAIN acc}
    \cup {[d EXCEPT !.volumes[v].accel[k] = Append(acc, d.surfaces[i])] :
            i \in DOMAIN d.surfaces}

ReplaceIn(seq, old, new) ==
    [e \in DOMAIN seq |-> IF seq[e] = old THEN new ELSE seq[e]]

\* the surface at table position i replaced by s, in the table and in
\* every acceleration structure that holds a copy of it
ReplaceSurface(d, i, s) ==
    [d EXCEPT
        !.surfaces[i] = s,
        !.volumes = [v \in DOMAIN d.volumes |->
                        [d.volumes[v] EXCEPT
                            !.accel = [k \in StoreTypes |->
                                ReplaceIn(d.volumes[v].accel[k],
                                          d.surfaces[i], s)]]]]

\* the detectors one defect away from d (d itself included)
Edits(d) ==
    {d}
    \cup (IF d.volumes = <<>> THEN {}
          ELSE {[d EXCEPT !.volumes = SubSeq(@, 1, Len(@) - 1)]})
    \cup (IF d.surfaces = <<>> THEN {}
          ELSE {[d EXCEPT !.surfaces = SubSeq(@, 1, Len(@) - 1)]})
    \cup {[d EXCEPT !.surfaces[is[1]] = is[2]] :
            is \in UNION {{<<i, s>> : s \in SfVariants(d.surfaces[i])} :
                            i \in DOMAIN d.surfaces}}
    \cup {ReplaceSurface(d, is[1], is[2]) :
            is \in UNION {{<<i, s>> : s \in SfVariants(d.surfaces[i])} :
                            i \in DOMAIN d.surfaces}}
    \cup {[d EXCEPT !.volumes[vw[1]] = vw[2]] :
            vw \in UNION {{<<v, w>> : w \in VolVariants(d.volumes[v])} :
                            v \in DOMAIN d.volumes}}
    \cup UNION {AccelEdits(d, v, k) : v \in DOMAIN d.volumes, k \in StoreTypes}
    \cup {[d EXCEPT !.transforms = 0]}
    \cup {[d EXCEPT !.masks = m] : m \in StoreVariants}
    \cup {[d EXCEPT !.materials = m] : m \in StoreVariants}
    \cup {[d EXCEPT !.vfinder = f] :
            f \in {<<>>, <<dindex_invalid>>, <<dindex_invalid, 0>>}}

\* all entries of the acceleration structures of a volume descriptor, in
\* the order visit_surfaces goes through them
Entries(vol) == vol.accel[1] \o vol.accel[2]

all_empty(store) == \A k \in StoreTypes : store[k] = 0

\* material referenced by a link lives in the material store
Consistent(d) ==
    (\/ \E v \in DOMAIN d.volumes :
           \/ d.volumes[v].mat.has
           \/ \E e \in DOMAIN Entries(d.volumes[v]) :
                 Entries(d.volumes[v])[e].mat.has
     \/ \E i \in DOMAIN d.surfaces : d.surfaces[i].mat.has)
    => ~all_empty(d.materials)

\* ---------------------------------------------------- detector interface
\* det.accelerator_store(): sub-collection 1 is the brute force finder,
\* sub-collection 2 the grids; each holds what the volumes link to
accelerator_store(d) ==
    [k \in StoreTypes |->
        IF \E v \in DOMAIN d.volumes : d.volumes[v].accel[k] # <<>>
        THEN 1 ELSE 0]

RECURSIVE BruteForceAll(_)
\* det.portals(): all surfaces held by the brute force finder
BruteForceAll(vols) ==
    IF vols = <<>> THEN <<>>
    ELSE Head(vols).accel[1] \o BruteForceAll(Tail(vols))

portals(d) == BruteForceAll(d.volumes)

\* det.surface(barcode): the table entry at the barcode's index
surface_lookup(d, sf) == d.surfaces[sf.index + 1]

\* surface::self_check: the descriptor is intact and its indices are in range
sf_self_check(d, sf) ==
    /\ sf.ok
    /\ sf.index < Len(d.surfaces)
    /\ sf.volume < Len(d.volumes)

\* detector_volume::self_check
vol_self_check(d, vol) == vol.ok

has_material(desc) == desc.mat.has

\* ------------------------------------------------------- checker helpers
RECURSIVE report_empty_from(_, _, _)
report_empty_from(store, store_name, k) ==
    IF k > Len(store) THEN <<>>
    ELSE (IF store[k] = 0 THEN <<[msg |-> store_name, no |-> k - 1]>>
          ELSE <<>>)
         \o report_empty_from(store, store_name, k + 1)

RECURSIVE report_nonempty_from(_, _, _)
report_nonempty_from(store, store_name, k) ==
    IF k > Len(store) THEN <<>>
    ELSE (IF store[k] # 0 THEN <<[msg |-> store_name, no |-> k - 1]>>
          ELSE <<>>)
         \o report_nonempty_from(store, store_name, k + 1)

\* a report_empty with the test inverted
report_nonempty(store, store_name) == report_nonempty_from(store, store_name, 1)

\* one warning per empty sub-collection, in index order
report_empty(store, store_name) == report_empty_from(store, store_name, 1)

find_portals(d) ==
    IF portals(d) = <<>> THEN FALSE
    ELSE \E k \in DOMAIN portals(d) : portals(d)[k].portal

find_volumes(vf) == \E k \in DOMAIN vf : ~is_invalid_value(vf[k])

\* a check_empty for which an empty material store is fatal
empty_fault_material_fatal(d) ==
    IF d.volumes = <<>> THEN "No volumes in detector"
    ELSE IF d.surfaces = <<>> THEN "No surfaces found"
    ELSE IF d.transforms = 0 THEN "No transforms in detector"
    ELSE IF all_empty(d.masks) THEN "No masks in detector"
    ELSE IF ~find_portals(d) THEN "No portals in detector"
    ELSE IF all_empty(d.materials) THEN "No material in detector"
    ELSE ""

\* a check_empty that looks at the surfaces before the volumes
empty_fault_surfaces_first(d) ==
    IF d.surfaces = <<>> THEN "No surfaces found"
    ELSE IF d.volumes = <<>> THEN "No volumes in detector"
    ELSE IF d.transforms = 0 THEN "No transforms in detector"
    ELSE IF all_empty(d.masks) THEN "No masks in detector"
    ELSE IF ~find_portals(d) THEN "No portals in detector"
    ELSE ""

\* the fatal part of check_empty: the first fault raised, "" when none is
empty_fault(d) ==
    IF d.volumes = <<>> THEN "No volumes in detector"
    ELSE IF d.surfaces = <<>> THEN "No surfaces found"
    ELSE IF d.transforms = 0 THEN "No transforms in detector"
    ELSE IF all_empty(d.masks) THEN "No masks in detector"
    ELSE IF ~find_portals(d) THEN "No portals in detector"
    ELSE ""

Warn(m) == [msg |-> m, no |-> 0]

\* the warnings of check_empty, in the order it prints them
empty_warnings(d, verb) ==
    (IF all_empty(d.materials) THEN <<Warn("No material in detector")>>
     ELSE IF verb THEN report_empty(d.materials, "material store")
     ELSE <<>>)
    \o (IF verb
        THEN report_empty(d.masks, "mask store")
             \o report_empty(accelerator_store(d),
                             "acceleration data structures store")
        ELSE <<>>)
    \o (IF ~find_volumes(d.vfinder)
        THEN <<Warn("No entries in volume finder")>>
        ELSE <<>>)

\* a surface_checker that accepts a link to the volume one past the last
surface_checker_link_gt(d, sf, vol_idx) ==
    IF ~sf_self_check(d, sf) THEN "surface self check"
    ELSE IF sf.volume # vol_idx THEN "Incorrect volume index on surface"
    ELSE IF ~is_invalid_value(sf.vlink) /\ sf.vlink > Len(d.volumes)
         THEN "Incorrect volume link to non-existent volume"
    ELSE IF ~(surface_lookup(d, sf) = sf)
         THEN "Surfaces in volume and detector lookups differ"
    ELSE ""

\* a surface_checker that does not compare the owning volume
surface_checker_no_owner(d, sf, vol_idx) ==
    IF ~sf_self_check(d, sf) THEN "surface self check"
    ELSE IF ~is_invalid_value(sf.vlink) /\ sf.vlink >= Len(d.volumes)
         THEN "Incorrect volume link to non-existent volume"
    ELSE IF ~(surface_lookup(d, sf) = sf)
         THEN "Surfaces in volume and detector lookups differ"
    ELSE ""

\* a surface_checker that does not consult the detector's surface lookup
surface_checker_no_lookup(d, sf, vol_idx) ==
    IF ~sf_self_check(d, sf) THEN "surface self check"
    ELSE IF sf.volume # vol_idx THEN "Incorrect volume index on surface"
    ELSE IF ~is_invalid_value(sf.vlink) /\ sf.vlink >= Len(d.volumes)
         THEN "Incorrect volume link to non-existent volume"
    ELSE ""

\* surface_checker, volume pass: the fault it throws for one entry of an
\* acceleration structure, "" when it throws none
surface_checker(d, sf, vol_idx) ==
    IF ~sf_self_check(d, sf) THEN "surface self check"
    ELSE IF sf.volume # vol_idx THEN "Incorrect volume index on surface"
    ELSE IF ~is_invalid_value(sf.vlink) /\ sf.vlink >= Len(d.volumes)
         THEN "Incorrect volume link to non-existent volume"
    ELSE IF ~(surface_lookup(d, sf) = sf)
         THEN "Surfaces in volume and detector lookups differ"
    ELSE ""

\* surface_checker, search: does it throw for this reference surface
search_throws(ref_descr, check_descr) ==
    ref_descr.volume # check_descr.volume

\* a search that reports success for whatever surface it visits
search_success_always(ref_descr, check_descr, success) == TRUE

\* a search that never reports the surface it has found
search_success_never(ref_descr, check_descr, success) == success

\* surface_checker, search: the value of success after the call
search_success(ref_descr, check_descr, success) ==
    IF ref_descr = check_descr THEN TRUE ELSE success

\* a material_checker that does not look at the slabs
material_checker_no_slabs(mat) ==
    IF Len(mat.bins) = 0 THEN "Empty material grid"
    ELSE IF \E b \in DOMAIN mat.bins : Len(mat.bins[b]) = 0
         THEN "Empty material bin"
    ELSE ""

\* material_checker for maps: the fault it throws, "" when it throws none
material_checker(mat) ==
    IF Len(mat.bins) = 0 THEN "Empty material grid"
    ELSE IF \E b \in DOMAIN mat.bins : Len(mat.bins[b]) = 0
         THEN "Empty material bin"
    ELSE IF \E b \in DOMAIN mat.bins :
               \E e \in DOMAIN mat.bins[b] : ~mat.bins[b][e]
         THEN "Invalid material found"
    ELSE ""

\* ------------------------------------------------------------------ state
VARIABLES
    det,            \* the detector handed to check_consistency
    verbose,        \* the verbose argument
    pc,             \* the check the run is about to perform
    vi,             \* position in det.volumes() (volume pass), else 0
    si,             \* position in det.surfaces() (surface pass), else 0
    ai,             \* position of the visitor in the acceleration structures
    is_registered,  \* the flag the search visitor sets
    warnings,       \* what was printed to std::cout, in order
    fault,          \* the exception that ended the run
    ret,            \* <<TRUE>> once check_consistency has returned
    evaluated,      \* the checks performed so far, in order
    helix,          \* the call of helix_cylinder_intersector in progress
    frame,          \* the call of the cartesian2 frame in progress
    writer          \* the call of material_map_writer::to_payload in progress

vars == <<det, verbose, pc, vi, si, ai, is_registered, warnings, fault, ret,
          evaluated>>

\* the state of the other components while check_consistency runs
others == <<helix, frame, writer>>

\* no call of the component is in progress
NoCall == [pc |-> "idle"]

Check(pass, i, step, k) == [pass |-> pass, i |-> i, step |-> step, k |-> k]

NoFault == [check |-> Check("", 0, "", 0), kind |-> "", sf |-> NoSf]

\* a checker that clears the volume finder it has inspected
const_ref_clears(d) == [d EXCEPT !.vfinder = <<>>]

\* check_consistency takes the detector by const reference
const_ref(d) == d

Init ==
    /\ \E b \in Bases : \E d1 \in Edits(b) : \E d \in Edits(d1) :
          Consistent(d) /\ det = d
    /\ verbose \in BOOLEAN
    /\ pc = "check_empty"
    /\ vi = 0 /\ si = 0 /\ ai = 0
    /\ is_registered = FALSE
    /\ warnings = <<>>
    /\ fault = NoFault
    /\ ret = <<>>
    /\ evaluated = <<>>
    /\ helix = NoCall /\ frame = NoCall /\ writer = NoCall

\* throw: the run ends, nothing else changes
Throw(check, kind, sf) ==
    /\ pc' = "fault"
    /\ fault' = [check |-> check, kind |-> kind, sf |-> sf]
    /\ UNCHANGED <<vi, si, ai, is_registered, warnings, ret>>
    /\ UNCHANGED others

\* go on with the check `to` at the positions given
Goto(to, v, s, a) ==
    /\ pc' = to
    /\ vi' = v /\ si' = s /\ ai' = a
    /\ UNCHANGED <<fault, ret>>
    /\ UNCHANGED others

CheckEmpty ==
    /\ pc = "check_empty"
    /\ det' = const_ref(det)
    /\ evaluated' = Append(evaluated, Check("empty", 0, "presence", 0))
    /\ IF empty_fault(det) # ""
       THEN Throw(Check("empty", 0, "presence", 0), empty_fault(det), NoSf)
       ELSE /\ warnings' = empty_warnings(det, verbose)
            /\ Goto("vol_self_check", 1, 0, 0)
            /\ UNCHANGED is_registered
    /\ UNCHANGED verbose

\* what follows the material check of the volume at position v
AfterVolume(v) ==
    IF v < Len(det.volumes) THEN Goto("vol_self_check", v + 1, 0, 0)
    ELSE Goto("sf_self_check", 0, 1, 0)

VolSelfCheck ==
    /\ pc = "vol_self_check"
    /\ det' = const_ref(det)
    /\ evaluated' = Append(evaluated, Check("vol", vi, "self_check", 0))
    /\ IF ~vol_self_check(det, det.volumes[vi])
       THEN Throw(Check("vol", vi, "self_check", 0), "volume self check", NoSf)
       ELSE Goto("vol_index", vi, 0, 0) /\ UNCHANGED <<is_registered, warnings>>
    /\ UNCHANGED verbose

\* a volume pass that does not compare the index of the volume
VolIndex_unchecked ==
    /\ pc = "vol_index"
    /\ det' = const_ref(det)
    /\ evaluated' = Append(evaluated, Check("vol", vi, "index", 0))
    /\ IF Entries(det.volumes[vi]) = <<>>
       THEN Goto("vol_material", vi, 0, 0)
       ELSE Goto("vol_visit", vi, 0, 1)
    /\ UNCHANGED <<is_registered, warnings, verbose>>

VolIndex ==
    /\ pc = "vol_index"
    /\ det' = const_ref(det)
    /\ evaluated' = Append(evaluated, Check("vol", vi, "index", 0))
    /\ IF det.volumes[vi].index # vi - 1
       THEN Throw(Check("vol", vi, "index", 0), "Incorrect volume index", NoSf)
       ELSE /\ IF Entries(det.volumes[vi]) = <<>>
               THEN Goto("vol_material", vi, 0, 0)
               ELSE Goto("vol_visit", vi, 0, 1)
            /\ UNCHANGED <<is_registered, warnings>>
    /\ UNCHANGED verbose

VolVisit ==
    /\ pc = "vol_visit"
    /\ det' = const_ref(det)
    /\ evaluated' = Append(evaluated, Check("vol", vi, "visit", ai))
    /\ LET vol == det.volumes[vi]
           sf == Entries(vol)[ai]
           f == surface_checker(det, sf, vol.index)
       IN IF f # ""
          THEN Throw(Check("vol", vi, "visit", ai), f, sf)
          ELSE /\ IF ai < Len(Entries(vol))
                  THEN Goto("vol_visit", vi, 0, ai + 1)
                  ELSE Goto("vol_material", vi, 0, 0)
               /\ UNCHANGED <<is_registered, warnings>>
    /\ UNCHANGED verbose

VolMaterial ==
    /\ pc = "vol_material"
    /\ det' = const_ref(det)
    /\ LET vol == det.volumes[vi] IN
       IF has_material(vol)
       THEN /\ evaluated' = Append(evaluated, Check("vol", vi, "material", 0))
            /\ IF material_checker(vol.mat) # ""
               THEN Throw(Check("vol", vi, "material", 0),
                          material_checker(vol.mat), NoSf)
               ELSE AfterVolume(vi) /\ UNCHANGED <<is_registered, warnings>>
       ELSE /\ AfterVolume(vi)
            /\ UNCHANGED <<evaluated, is_registered, warnings>>
    /\ UNCHANGED verbose

SfSelfCheck ==
    /\ pc = "sf_self_check"
    /\ det' = const_ref(det)
    /\ evaluated' = Append(evaluated, Check("sf", si, "self_check", 0))
    /\ IF ~sf_self_check(det, det.surfaces[si])
       THEN Throw(Check("sf", si, "self_check", 0), "surface self check", NoSf)
       ELSE Goto("sf_index", 0, si, 0) /\ UNCHANGED <<is_registered, warnings>>
    /\ UNCHANGED verbose

\* the entries visit_surfaces goes through for detector_volume{det, sf.volume()}
SearchEntries(d, sf) == Entries(d.volumes[sf.volume + 1])

SfIndex ==
    /\ pc = "sf_index"
    /\ det' = const_ref(det)
    /\ evaluated' = Append(evaluated, Check("sf", si, "index", 0))
    /\ LET sf == det.surfaces[si] IN
       IF sf.index # si - 1
       THEN Throw(Check("sf", si, "index", 0), "Incorrect surface index", sf)
       ELSE /\ is_registered' = FALSE
            /\ IF SearchEntries(det, sf) = <<>>
               THEN Goto("sf_registered", 0, si, 0)
               ELSE Goto("sf_search", 0, si, 1)
            /\ UNCHANGED warnings
    /\ UNCHANGED verbose

SfSearch ==
    /\ pc = "sf_search"
    /\ det' = const_ref(det)
    /\ evaluated' = Append(evaluated, Check("sf", si, "search", ai))
    /\ LET sf == det.surfaces[si]
           ref == SearchEntries(det, sf)[ai]
       IN IF search_throws(ref, sf)
          THEN Throw(Check("sf", si, "search", ai),
                     "Incorrect volume index on surface (search)", sf)
          ELSE /\ is_registered' = search_success(ref, sf, is_registered)
               /\ IF ai < Len(SearchEntries(det, sf))
                  THEN Goto("sf_search", 0, si, ai + 1)
                  ELSE Goto("sf_registered", 0, si, 0)
               /\ UNCHANGED warnings
    /\ UNCHANGED verbose

SfRegistered ==
    /\ pc = "sf_registered"
    /\ det' = const_ref(det)
    /\ evaluated' = Append(evaluated, Check("sf", si, "registered", 0))
    /\ IF ~is_registered
       THEN Throw(Check("sf", si, "registered", 0),
                  "Found surface that is not part of its volume", det.surfaces[si])
       ELSE Goto("sf_material", 0, si, 0) /\ UNCHANGED <<is_registered, warnings>>
    /\ UNCHANGED verbose

\* what follows the material check of the surface at position s
AfterSurface(s) ==
    IF s < Len(det.surfaces)
    THEN Goto("sf_self_check", 0, s + 1, 0)
    ELSE /\ pc' = "done" /\ ret' = <<TRUE>>
         /\ vi' = 0 /\ si' = 0 /\ ai' = 0
         /\ UNCHANGED fault
         /\ UNCHANGED others

SfMaterial ==
    /\ pc = "sf_material"
    /\ det' = const_ref(det)
    /\ LET sf == det.surfaces[si] IN
       IF has_material(sf)
       THEN /\ evaluated' = Append(evaluated, Check("sf", si, "material", 0))
            /\ IF material_checker(sf.mat) # ""
               THEN Throw(Check("sf", si, "material", 0),
                          material_checker(sf.mat), NoSf)
               ELSE AfterSurface(si) /\ UNCHANGED <<is_registered, warnings>>
       ELSE /\ AfterSurface(si)
            /\ UNCHANGED <<evaluated, is_registered, warnings>>
    /\ UNCHANGED verbose

Next ==
    \/ CheckEmpty
    \/ VolSelfCheck
    \/ VolIndex
    \/ VolVisit
    \/ VolMaterial
    \/ SfSelfCheck
    \/ SfIndex
    \/ SfSearch
    \/ SfRegistered
    \/ SfMaterial

Spec == Init /\ [][Next]_vars

\* ----------------------------------------------- what a detector must satisfy
Range(seq) == {seq[k] : k \in DOMAIN seq}

\* the structural presence conditions
HasVolumes(d) == Len(d.volumes) > 0
HasSurfaces(d) == Len(d.surfaces) > 0
HasTransforms(d) == d.transforms > 0
HasMasks(d) == \E k \in StoreTypes : d.masks[k] > 0
HasPortal(d) == \E sf \in Range(portals(d)) : sf.portal

StructurePresent(d) ==
    HasVolumes(d) /\ HasSurfaces(d) /\ HasTransforms(d) /\ HasMasks(d)
    /\ HasPortal(d)

\* a material map with at least one bin, no empty bin and no empty slab
MapValid(mat) ==
    /\ mat.bins # <<>>
    /\ \A b \in DOMAIN mat.bins :
          mat.bins[b] # <<>> /\ \A e \in DOMAIN mat.bins[b] : mat.bins[b][e]

SurfaceIntact(d, sf) ==
    sf.ok /\ sf.index \in 0..(Len(d.surfaces) - 1)
    /\ sf.volume \in 0..(Len(d.volumes) - 1)

LinkValid(d, sf) ==
    sf.vlink = dindex_invalid \/ sf.vlink \in 0..(Len(d.volumes) - 1)

\* the surface of the table at position i is held by an acceleration
\* structure of its owning volume
Registered(d, i) ==
    d.surfaces[i] \in Range(Entries(d.volumes[d.surfaces[i].volume + 1]))

\* no fatal check of the checker is violated
NoFatalViolation(d) ==
    /\ StructurePresent(d)
    /\ \A v \in DOMAIN d.volumes :
          /\ d.volumes[v].ok /\ d.volumes[v].index = v - 1
          /\ d.volumes[v].mat.has => MapValid(d.volumes[v].mat)
          /\ \A sf \in Range(Entries(d.volumes[v])) :
                /\ SurfaceIntact(d, sf)
                /\ sf.volume = v - 1
                /\ LinkValid(d, sf)
                /\ d.surfaces[sf.index + 1] = sf
    /\ \A i \in DOMAIN d.surfaces :
          /\ SurfaceIntact(d, d.surfaces[i])
          /\ d.surfaces[i].index = i - 1
          /\ Registered(d, i)
          /\ d.surfaces[i].mat.has => MapValid(d.surfaces[i].mat)

Finished == pc \in {"done", "fault"}

\* ------------------------------------------------------------------ claims

\* C1: check_consistency never mutates the detector: every step of a run,
\* whether the run ends by returning true or in a fault, leaves the
\* detector (volumes, surfaces, acceleration structures, stores, volume
\* finder) as it was, for both values of verbose.
C1_DetectorNotMutated == [][det' = det]_vars

\* a run has gone through both passes and returned
C1_Witness == pc = "done" /\ Len(evaluated) > 3 /\ verbose

\* C2: for a detector in which no fatal check is violated the run never
\* faults, every step short of the return is followed by another one, and
\* the value returned is true; no run returns anything but true.
C2_ValidDetectorPasses ==
    /\ ret \in {<<>>, <<TRUE>>}
    /\ (pc = "done") = (ret = <<TRUE>>)
    /\ NoFatalViolation(det) =>
          /\ pc # "fault" /\ fault = NoFault
          /\ pc # "done" => ENABLED Next

\* the minimal valid detector (one volume, one portal) has been accepted
C2_Witness ==
    /\ pc = "done" /\ ret = <<TRUE>> /\ fault = NoFault
    /\ NoFatalViolation(det)
    /\ Len(det.volumes) = 1 /\ Len(det.surfaces) = 1

\* C3: when check_consistency returns true, (a) every surface held in an
\* acceleration structure of a volume reports that volume as its owner and
\* (b) every surface of the flat table is held in an acceleration structure
\* of its owning volume.
C3_MembershipSound ==
    pc = "done" =>
        \A v \in DOMAIN det.volumes :
            /\ \A sf \in Range(Entries(det.volumes[v])) : sf.volume = v - 1
            /\ \A i \in DOMAIN det.surfaces :
                  det.surfaces[i].volume = v - 1 =>
                      det.surfaces[i] \in Range(Entries(det.volumes[v]))

\* accepted: two volumes, each holding a surface of the table
C3_Witness ==
    /\ pc = "done"
    /\ Len(det.volumes) = 2
    /\ \A v \in DOMAIN det.volumes : Entries(det.volumes[v]) # <<>>

\* C4: a missing volume, surface or transform store content, an entirely
\* empty mask store or a missing portal ends the run in a fault of
\* check_empty, before any per-volume or per-surface check; the conditions
\* are tested in this order, so zero volumes always give "No volumes".
C4_StructurePresenceFatal ==
    pc # "check_empty" =>
        /\ ~StructurePresent(det) =>
              /\ pc = "fault"
              /\ evaluated = <<Check("empty", 0, "presence", 0)>>
              /\ fault.check = Check("empty", 0, "presence", 0)
        /\ ~HasVolumes(det) => fault.kind = "No volumes in detector"
        /\ HasVolumes(det) /\ ~HasSurfaces(det) =>
              fault.kind = "No surfaces found"
        /\ HasVolumes(det) /\ HasSurfaces(det) /\ ~HasTransforms(det) =>
              fault.kind = "No transforms in detector"
        /\ HasVolumes(det) /\ HasSurfaces(det) /\ HasTransforms(det)
           /\ ~HasMasks(det) => fault.kind = "No masks in detector"
        /\ HasVolumes(det) /\ HasSurfaces(det) /\ HasTransforms(det)
           /\ HasMasks(det) /\ ~HasPortal(det) =>
              fault.kind = "No portals in detector"

\* no volumes and no surfaces either: the fault names the volumes
C4_Witness ==
    /\ pc = "fault"
    /\ ~HasVolumes(det) /\ ~HasSurfaces(det)
    /\ fault.kind = "No volumes in detector"

\* the structural checks and the per-volume pass find nothing
VolumePassClean(d) ==
    /\ StructurePresent(d)
    /\ \A v \in DOMAIN d.volumes :
          /\ d.volumes[v].ok /\ d.volumes[v].index = v - 1
          /\ d.volumes[v].mat.has => MapValid(d.volumes[v].mat)
          /\ \A sf \in Range(Entries(d.volumes[v])) :
                /\ SurfaceIntact(d, sf)
                /\ sf.volume = v - 1
                /\ LinkValid(d, sf)
                /\ d.surfaces[sf.index + 1] = sf

\* the surface at table position i equals no surface in the acceleration
\* structures of its owning volume
Orphan(d, i) ==
    IF d.surfaces[i].volume + 1 \in DOMAIN d.volumes
    THEN ~Registered(d, i) ELSE TRUE

Orphans(d) == {i \in DOMAIN d.surfaces : Orphan(d, i)}

FirstOrphan(d) == CHOOSE i \in Orphans(d) : \A j \in Orphans(d) : i <= j

NotRegistered == "Found surface that is not part of its volume"

\* the self-check, index and material checks of the surface pass find
\* nothing at table position j
SurfaceClean(d, j) ==
    /\ SurfaceIntact(d, d.surfaces[j]) /\ d.surfaces[j].index = j - 1
    /\ d.surfaces[j].mat.has => MapValid(d.surfaces[j].mat)

\* C5 as stated: once the structural checks and the per-volume pass have
\* passed, an orphan surface of the flat table makes the run end in a fault
\* that identifies an orphan surface.
C5_OrphanIdentified ==
    (Finished /\ VolumePassClean(det) /\ Orphans(det) # {}) =>
        /\ pc = "fault"
        /\ fault.check.pass = "sf"
        /\ fault.check.i \in Orphans(det)

\* C5 as amended: once the structural checks and the per-volume pass have
\* passed, an orphan surface of the flat table keeps the run from returning
\* true; the run ends in a fault of the surface pass raised at or before the
\* first orphan, and that fault is the not-registered fault naming the first
\* orphan whenever no self-check, index or material check of an earlier
\* surface and no self-check or index check of the orphan is violated.
C5_OrphanNeverAccepted ==
    (VolumePassClean(det) /\ Orphans(det) # {}) =>
        LET f == FirstOrphan(det) IN
        /\ pc # "done"
        /\ ~Finished => ENABLED Next
        /\ pc = "fault" =>
              /\ fault.check.pass = "sf" /\ fault.check.i <= f
              /\ fault.check.i = f =>
                    fault.check.step \in {"self_check", "index", "registered"}
              /\ fault.kind = NotRegistered =>
                    fault.check.i = f /\ fault.sf = det.surfaces[f]
              /\ ((\A j \in 1..(f - 1) : SurfaceClean(det, j))
                  /\ SurfaceIntact(det, det.surfaces[f])
                  /\ det.surfaces[f].index = f - 1) =>
                    fault.kind = NotRegistered /\ fault.sf = det.surfaces[f]

\* the not-registered fault names the second surface of the table
C5_Witness ==
    /\ pc = "fault" /\ fault.kind = NotRegistered
    /\ VolumePassClean(det)
    /\ fault.check.i = 2 /\ fault.sf = det.surfaces[2]

\* C6: a surface held in an acceleration structure of a volume and storing
\* another owning-volume index keeps the run from returning true: the run
\* goes on until it faults, and the owner fault is raised only for a
\* surface whose stored owner differs from the volume visited.
C6_WrongOwnerFaults ==
    /\ (\E v \in DOMAIN det.volumes :
           \E sf \in Range(Entries(det.volumes[v])) : sf.volume # v - 1) =>
          /\ pc # "done"
          /\ ~Finished => ENABLED Next
    /\ (pc = "fault" /\ fault.kind = "Incorrect volume index on surface") =>
          /\ fault.check.pass = "vol" /\ fault.check.step = "visit"
          /\ fault.sf = Entries(det.volumes[fault.check.i])[fault.check.k]
          /\ fault.sf.volume # fault.check.i - 1

\* the owner fault has been raised in the second volume
C6_Witness ==
    /\ pc = "fault" /\ fault.kind = "Incorrect volume index on surface"
    /\ fault.check.i = 2 /\ fault.sf.volume = 0

BadLink == "Incorrect volume link to non-existent volume"

\* C7: the volume-link fault is raised exactly for a visited surface that
\* has passed the self-check and the owner check and whose link is neither
\* the sentinel nor below the number of volumes; after a true result every
\* link in the acceleration structures is the sentinel or a volume index.
C7_VolumeLinkValid ==
    /\ pc = "done" =>
          \A v \in DOMAIN det.volumes :
              \A sf \in Range(Entries(det.volumes[v])) : LinkValid(det, sf)
    /\ (pc = "fault" /\ fault.kind = BadLink) =>
          /\ fault.check.step = "visit"
          /\ fault.sf.vlink # dindex_invalid
          /\ fault.sf.vlink >= Len(det.volumes)
    /\ (pc = "fault" /\ fault.check.step = "visit") =>
          LET sf == Entries(det.volumes[fault.check.i])[fault.check.k] IN
          (SurfaceIntact(det, sf) /\ sf.volume = fault.check.i - 1) =>
              (fault.kind = BadLink) = ~LinkValid(det, sf)

\* the link fault for a link equal to the number of volumes
C7_Witness ==
    /\ pc = "fault" /\ fault.kind = BadLink
    /\ fault.sf.vlink = Len(det.volumes)

\* ---------------------------------------------- the sequence of the checks
\* the checks of the volume at position v: self-check, index match, one
\* visit per entry of its acceleration structures, material when declared
VolChecks(d, v) ==
    <<Check("vol", v, "self_check", 0), Check("vol", v, "index", 0)>>
    \o [k \in 1..Len(Entries(d.volumes[v])) |-> Check("vol", v, "visit", k)]
    \o (IF d.volumes[v].mat.has THEN <<Check("vol", v, "material", 0)>>
        ELSE <<>>)

\* the number of reference surfaces the search for table position i visits
SearchLen(d, i) ==
    IF d.surfaces[i].volume + 1 \in DOMAIN d.volumes
    THEN Len(Entries(d.volumes[d.surfaces[i].volume + 1])) ELSE 0

\* the checks of the surface at table position i: self-check, index match,
\* the registration search over its volume, material when declared
SfChecks(d, i) ==
    <<Check("sf", i, "self_check", 0), Check("sf", i, "index", 0)>>
    \o [k \in 1..SearchLen(d, i) |-> Check("sf", i, "search", k)]
    \o <<Check("sf", i, "registered", 0)>>
    \o (IF d.surfaces[i].mat.has THEN <<Check("sf", i, "material", 0)>>
        ELSE <<>>)

RECURSIVE VolPass(_, _)
VolPass(d, v) ==
    IF v > Len(d.volumes) THEN <<>> ELSE VolChecks(d, v) \o VolPass(d, v + 1)

RECURSIVE SfPass(_, _)
SfPass(d, i) ==
    IF i > Len(d.surfaces) THEN <<>> ELSE SfChecks(d, i) \o SfPass(d, i + 1)

\* all checks of a run in their fixed order
CheckSeq(d) ==
    <<Check("empty", 0, "presence", 0)>> \o VolPass(d, 1) \o SfPass(d, 1)

\* the check c finds its condition violated in d
Violated(d, c) ==
    IF c.pass = "empty" THEN ~StructurePresent(d)
    ELSE IF c.pass = "vol" THEN
        LET vol == d.volumes[c.i] IN
        IF c.step = "self_check" THEN ~vol.ok
        ELSE IF c.step = "index" THEN vol.index # c.i - 1
        ELSE IF c.step = "visit" THEN
            LET sf == Entries(vol)[c.k] IN
            ~(/\ SurfaceIntact(d, sf)
              /\ sf.volume = c.i - 1
              /\ LinkValid(d, sf)
              /\ d.surfaces[sf.index + 1] = sf)
        ELSE ~MapValid(vol.mat)
    ELSE
        LET sf == d.surfaces[c.i] IN
        IF c.step = "self_check" THEN ~SurfaceIntact(d, sf)
        ELSE IF c.step = "index" THEN sf.index # c.i - 1
        ELSE IF c.step = "search"
             THEN Entries(d.volumes[sf.volume + 1])[c.k].volume # sf.volume
        ELSE IF c.step = "registered" THEN Orphan(d, c.i)
        ELSE ~MapValid(sf.mat)

\* the positions of CheckSeq(d) whose check is violated with every check
\* before it passing, i.e. the first violated check if there is one
FirstViolated(d) ==
    LET cs == CheckSeq(d)
        viol == [p \in DOMAIN cs |-> Violated(d, cs[p])]
    IN {p \in DOMAIN cs : viol[p] /\ \A q \in 1..(p - 1) : ~viol[q]}

\* C8: the checks are performed in the fixed sequence CheckSeq; a run
\* performs them one after the other up to the first violated one, raises
\* the fault of that check, and performs no check after it; a run that
\* finds nothing violated performs all of them and raises no fault.
C8_FailFastOrder ==
    LET cs == CheckSeq(det)
        n == Len(evaluated)
    IN
    /\ n <= Len(cs)
    /\ evaluated = SubSeq(cs, 1, n)
    /\ \A p \in 1..(n - 1) : ~Violated(det, cs[p])
    /\ pc = "fault" =>
          /\ n >= 1 /\ Violated(det, cs[n])
          /\ fault.check = cs[n]
          /\ fault.kind # ""
          /\ ~ENABLED Next
    /\ pc # "fault" =>
          /\ fault = NoFault
          /\ n >= 1 => ~Violated(det, cs[n])
    /\ pc = "done" => n = Len(cs)

\* a fault of the volume pass in a detector whose surface pass would have
\* faulted as well
C8_Witness ==
    /\ pc = "fault" /\ fault.check.pass = "vol"
    /\ \E p \in (Len(evaluated) + 1)..Len(CheckSeq(det)) :
          CheckSeq(det)[p].pass = "sf" /\ CheckSeq(det)[p].step = "index"
          /\ Violated(det, CheckSeq(det)[p])

\* ----------------------------------------------------------------- warnings
NoMaterialWarning == Warn("No material in detector")
NoVolumeFinderWarning == Warn("No entries in volume finder")

\* the detector with a filled material store and a filled volume finder
WithoutWarningCondition(d) ==
    [d EXCEPT !.materials = <<1, 1>>, !.vfinder = <<0>>]

\* C9: an entirely empty material store and a volume finder without a valid
\* entry each give exactly their warning and no fault: the run goes on with
\* the volume pass, and it ends as the run for the same detector with a
\* filled material store and volume finder ends (true, or the same fault).
C9_WarningsNotFatal ==
    /\ (pc # "check_empty" /\ StructurePresent(det)) =>
          /\ (NoMaterialWarning \in Range(warnings)) = all_empty(det.materials)
          /\ (NoVolumeFinderWarning \in Range(warnings))
                = (\A k \in DOMAIN det.vfinder : det.vfinder[k] = dindex_invalid)
    /\ warnings # <<>> =>
          /\ Len(evaluated) >= 1
          /\ pc = "fault" => fault.check.pass # "empty"
          /\ ~Finished => ENABLED Next
    /\ Finished =>
          LET first == FirstViolated(WithoutWarningCondition(det)) IN
          /\ (pc = "done") = (first = {})
          /\ pc = "fault" =>
                \E p \in first :
                    fault.check = CheckSeq(WithoutWarningCondition(det))[p]

\* accepted with both warnings printed
C9_Witness ==
    /\ pc = "done"
    /\ NoMaterialWarning \in Range(warnings)
    /\ NoVolumeFinderWarning \in Range(warnings)

\* how often the warning for sub-collection k of the store is printed
Count(store_name, k) ==
    Cardinality({p \in DOMAIN warnings :
                    warnings[p] = [msg |-> store_name, no |-> k - 1]})

\* the warning for sub-collection k is printed once if it is empty and not
\* at all otherwise
Audited(store, store_name) ==
    \A k \in StoreTypes :
        Count(store_name, k) = IF store[k] = 0 THEN 1 ELSE 0

NotAudited(store_name) == \A k \in StoreTypes : Count(store_name, k) = 0

AccelName == "acceleration data structures store"

\* C10 as stated: in verbose mode, once the structural checks have passed,
\* every empty sub-collection of the material, mask and acceleration
\* structure stores has its warning, a non-empty one has none.
C10_EveryEmptyCollectionWarned ==
    (pc # "check_empty" /\ StructurePresent(det) /\ verbose) =>
        /\ Audited(det.materials, "material store")
        /\ Audited(det.masks, "mask store")
        /\ Audited(accelerator_store(det), AccelName)

\* C10 as amended: in verbose mode, once the structural checks have passed,
\* every empty sub-collection of the mask and acceleration structure stores
\* has its one warning and a non-empty one none, and so has every
\* sub-collection of the material store unless that store is entirely
\* empty, which gives no per-collection warning; in non-verbose mode no
\* per-collection warning is printed; a run ends as the sequence of checks
\* determines, whatever verbose is.
C10_EmptyCollectionAudit ==
    /\ (pc # "check_empty" /\ StructurePresent(det) /\ verbose) =>
          /\ IF all_empty(det.materials) THEN NotAudited("material store")
             ELSE Audited(det.materials, "material store")
          /\ Audited(det.masks, "mask store")
          /\ Audited(accelerator_store(det), AccelName)
    /\ ~verbose =>
          /\ NotAudited("material store") /\ NotAudited("mask store")
          /\ NotAudited(AccelName)
    /\ ~StructurePresent(det) => warnings = <<>>
    /\ Finished =>
          /\ (pc = "done") = (FirstViolated(det) = {})
          /\ pc = "fault" =>
                \E p \in FirstViolated(det) : fault.check = CheckSeq(det)[p]

\* verbose run, accepted, with a warning for an empty sub-collection of
\* each of the three stores
C10_Witness ==
    /\ pc = "done" /\ verbose
    /\ Count("material store", 2) = 1
    /\ Count("mask store", 2) = 1
    /\ Count(AccelName, 2) = 1

\* =================================================== helix_cylinder_intersector
\* Scalars of the solver are counted in units of tol = 1e-3. The helix is an
\* input of the call: the value of the derivative and the Newton correction
\* f(s)/f'(s) it yields in an iteration are drawn from bounded sets.

\* the path lengths explored lie within SMax units of the starting one
SMax == 2
\* the largest Newton correction, in units of tol
MaxStep == 2

max_n_tries == 100
tol == 1
\* the 0.1 that separates the seed s_prev from s
SeedGap == 100
\* a starting path length large enough for a single precision scalar_type to
\* lose the 0.1: 2097153 mm, where neighbouring floats are 0.25 mm apart
Big == 2097153000

Abs(x) == IF x < 0 THEN -x ELSE x

\* every state of the checker's variables while another component runs
CheckerIdle ==
    /\ det = <<>> /\ verbose = FALSE /\ pc = "idle"
    /\ vi = 0 /\ si = 0 /\ ai = 0
    /\ is_registered = FALSE /\ warnings = <<>> /\ fault = NoFault
    /\ ret = <<>> /\ evaluated = <<>>

\* a default-constructed intersection
default_intersection ==
    [status |-> "undefined", direction |-> "undefined", path |-> <<>>,
     p3 |-> <<>>, p2 |-> <<>>, link |-> dindex_invalid]

\* output_type ret: slot 0 is ret_[1], slot 1 is ret_[2]
output_type == <<default_intersection, default_intersection>>

\* the verdicts of mask.is_inside on a point
Verdicts == {"inside", "outside"}

\* scalar_type s_prev{s - 0.1}: the values the build can produce
seed(s) == IF s >= Big THEN {s, s - SeedGap} ELSE {s - SeedGap}

\* a loop that allows one iteration more
loop_condition_one_more(s, s_prev, n_tries) ==
    Abs(s - s_prev) > tol /\ n_tries <= max_n_tries

\* the condition of the while loop
loop_condition(s, s_prev, n_tries) ==
    Abs(s - s_prev) > tol /\ n_tries < max_n_tries

\* a solver that divides by a zero derivative
never_degenerate(denom) == FALSE

\* if (denom == 0)
is_degenerate(denom) == denom = 0

\* an intersection that is left default-constructed when the point lies
\* outside the mask
intersection_absent_outside(s, verdict, dot_positive, link) ==
    IF verdict = "outside" THEN default_intersection
    ELSE [status |-> verdict,
          direction |-> IF dot_positive THEN "along" ELSE "opposite",
          path |-> <<s>>, p3 |-> <<s>>, p2 |-> <<s>>, link |-> link]

\* the record built from the helix point h.pos(s): <<s>> stands for the
\* quantities computed from that point
intersection(s, verdict, dot_positive, link) ==
    [status |-> verdict,
     direction |-> IF dot_positive THEN "along" ELSE "opposite",
     path |-> <<s>>, p3 |-> <<s>>, p2 |-> <<s>>, link |-> link]

\* a solver that fills both slots
build_both(ret_, is) == <<is, is>>

\* intersection_type &is = ret[0]; ... ; return ret
build(ret_, is) == [ret_ EXCEPT ![1] = is]

InitHelix ==
    /\ CheckerIdle
    /\ frame = NoCall /\ writer = NoCall
    /\ \E s0 \in {SMax, Big} : \E sp \in seed(s0) :
       \E link \in {0, dindex_invalid} :
          helix = [pc |-> "loop", s0 |-> s0, seed |-> sp, s |-> s0,
                   s_prev |-> sp, n_tries |-> 0, denom |-> 1, ret |-> output_type,
                   link |-> link, verdict |-> "undefined"]

\* one pass through the body of the while loop
NewtonStep ==
    /\ helix.pc = "loop"
    /\ loop_condition(helix.s, helix.s_prev, helix.n_tries)
    /\ \E denom \in {-1, 0, 1} : \E q \in -MaxStep..MaxStep :
          IF is_degenerate(denom)
          THEN helix' = [helix EXCEPT !.pc = "degenerate", !.denom = denom]
          ELSE /\ Abs(helix.s - q - helix.s0) <= SMax
               /\ helix' = [helix EXCEPT !.s_prev = helix.s,
                                         !.s = helix.s - q,
                                         !.n_tries = @ + 1,
                                         !.denom = denom]
    /\ UNCHANGED <<vars, frame, writer>>

\* if (n_tries == max_n_tries) return ret
MaxTries ==
    /\ helix.pc = "loop"
    /\ ~loop_condition(helix.s, helix.s_prev, helix.n_tries)
    /\ helix.n_tries = max_n_tries
    /\ helix' = [helix EXCEPT !.pc = "no_solution"]
    /\ UNCHANGED <<vars, frame, writer>>

\* the record is built from the last s and returned
BuildIntersection ==
    /\ helix.pc = "loop"
    /\ ~loop_condition(helix.s, helix.s_prev, helix.n_tries)
    /\ helix.n_tries # max_n_tries
    /\ \E verdict \in Verdicts : \E dot_positive \in BOOLEAN :
          helix' = [helix EXCEPT
                       !.pc = "found",
                       !.verdict = verdict,
                       !.ret = build(helix.ret,
                                     intersection(helix.s, verdict,
                                                  dot_positive, helix.link))]
    /\ UNCHANGED <<vars, frame, writer>>

NextHelix ==
    \/ NewtonStep
    \/ MaxTries
    \/ BuildIntersection

allvars == <<vars, others>>

SpecHelix == InitHelix /\ [][NextHelix]_allvars

\* a call that is scheduled keeps running until it returns
SpecHelixFair == SpecHelix /\ WF_allvars(NextHelix)

HelixReturned == helix.pc \in {"degenerate", "no_solution", "found"}

\* the iteration stopped because the last correction was within tol
Converged == Abs(helix.s - helix.s_prev) <= tol

\* C11: a zero derivative in an iteration ends the call at once: both slots
\* are default-constructed and no further step of the call is possible.
C11_ZeroDerivativeReturns ==
    (helix.pc # "idle" /\ helix.denom = 0) =>
        /\ helix.pc = "degenerate"
        /\ helix.ret = <<default_intersection, default_intersection>>
        /\ ~ENABLED NextHelix

C11_Witness ==
    helix.pc = "degenerate" /\ helix.denom = 0 /\ helix.n_tries > 1

\* the loop body has been entered: an iteration was completed or one met a
\* zero derivative
LoopEntered == helix.n_tries >= 1 \/ helix.pc = "degenerate"

\* the seed s_prev computed at line 78 differs from s by more than tol
SeedDistinct == Abs(helix.s0 - helix.seed) > tol

\* C12 as stated: every call returns, completes at most max_n_tries
\* iterations, and has entered the loop body at least once when it returns.
C12_AlwaysEntered ==
    /\ [](helix.n_tries <= max_n_tries)
    /\ <>HelixReturned
    /\ [](HelixReturned => LoopEntered)

\* C12: every call returns and completes at most max_n_tries iterations; when
\* it returns it has entered the loop body at least once provided that the
\* seed computed in scalar_type differs from s by more than tol.
C12_BoundedIteration ==
    /\ [](helix.n_tries <= max_n_tries)
    /\ <>HelixReturned
    /\ [](HelixReturned /\ SeedDistinct => LoopEntered)

C12_Witness ==
    helix.pc = "no_solution" /\ helix.n_tries = max_n_tries /\ SeedDistinct

\* C13: a call that met no zero derivative and whose last correction is within
\* tol after 1 to max_n_tries iterations returns slot 0 built from the last s;
\* the absent result of the iteration cap is returned only after max_n_tries
\* iterations the last of which did not come within tol.
C13_ConvergencePopulatesSlot0 ==
    /\ (/\ HelixReturned /\ helix.pc # "degenerate"
        /\ Converged /\ helix.n_tries \in 1..max_n_tries)
       => /\ helix.pc = "found"
          /\ helix.ret[1].p3 = <<helix.s>>
    /\ helix.pc = "no_solution"
       => helix.n_tries = max_n_tries /\ ~Converged

\* C14: slot 1 is default-constructed at every point of a call, hence on
\* every return path, and slot 0 is default-constructed when the call returns
\* because of a zero derivative or because of the iteration cap.
C14_Slot1NeverPopulated ==
    helix.pc # "idle" =>
        /\ helix.ret[2] = default_intersection
        /\ helix.pc \in {"degenerate", "no_solution"}
           => helix.ret[1] = default_intersection

C14_Witness ==
    /\ helix.pc = "found" /\ helix.n_tries > 0
    /\ helix.ret[1] # default_intersection
    /\ helix.ret[2] = default_intersection

\* C15 as stated: when the iteration converges and the mask's boundary test
\* rejects the point, slot 0 holds an absent (default-constructed) record.
C15_OutsideIsAbsent ==
    (helix.pc = "found" /\ helix.verdict = "outside")
        => helix.ret[1] = default_intersection

\* C15: when the iteration converges and the mask's boundary test rejects the
\* point, the call returns normally and slot 0 holds a populated record: its
\* status is the verdict "outside", its path, points and volume link are
\* those of the converged point and the mask; it is not default-constructed.
C15_OutsideIsReported ==
    (helix.pc = "found" /\ helix.verdict = "outside")
        => /\ helix.ret[1].status = "outside"
           /\ helix.ret[1].path = <<helix.s>>
           /\ helix.ret[1].p3 = <<helix.s>>
           /\ helix.ret[1].p2 = <<helix.s>>
           /\ helix.ret[1].link = helix.link
           /\ helix.ret[1].direction \in {"along", "opposite"}
           /\ helix.ret[1] # default_intersection

C15_Witness ==
    /\ helix.pc = "found" /\ helix.verdict = "outside"
    /\ Converged /\ helix.n_tries > 0

\* ================================================================== cartesian2
\* Points and vectors are sequences of integers. transform3 is part of the
\* algebra plugin: a transform is a matrix (a sequence of rows) and a
\* translation; point_to_local applies the transposed matrix, which inverts
\* point_to_global exactly when the matrix is orthogonal.

\* the local coordinates explored lie in -MaxCoord..MaxCoord
MaxCoord == 1

Coords == -MaxCoord..MaxCoord

dot3(a, b) == a[1] * b[1] + a[2] * b[2] + a[3] * b[3]

mat_vec(m, v) == <<dot3(m[1], v), dot3(m[2], v), dot3(m[3], v)>>

transpose(m) ==
    << <<m[1][1], m[2][1], m[3][1]>>,
       <<m[1][2], m[2][2], m[3][2]>>,
       <<m[1][3], m[2][3], m[3][3]>> >>

point_to_global(trf, p) ==
    LET r == mat_vec(trf.rotation, p)
    IN <<r[1] + trf.translation[1], r[2] + trf.translation[2],
         r[3] + trf.translation[3]>>

point_to_local(trf, p) ==
    mat_vec(transpose(trf.rotation),
            <<p[1] - trf.translation[1], p[2] - trf.translation[2],
              p[3] - trf.translation[3]>>)

\* the identity, a quarter turn about z, a turn that takes the local z axis
\* to the global y axis, and a matrix that is not orthogonal
Rotations ==
    { << <<1, 0, 0>>, <<0, 1, 0>>, <<0, 0, 1>> >>,
      << <<0, -1, 0>>, <<1, 0, 0>>, <<0, 0, 1>> >>,
      << <<1, 0, 0>>, <<0, 0, -1>>, <<0, 1, 0>> >>,
      << <<2, 0, 0>>, <<0, 1, 0>>, <<0, 0, 1>> >> }

Translations == { <<0, 0, 0>>, <<1, -1, 2>> }

Transforms ==
    {[rotation |-> r, translation |-> t] : r \in Rotations, t \in Translations}

Directions == { <<0, 0, 1>>, <<1, 0, 0>> }

Masks == {"rectangle2D", "ring2D"}

\* a projection that exchanges the two coordinates
project_swapped(local3) == <<local3[2], local3[1]>>

\* operator()(const point3 &local3): the first two coordinates
project(local3) == <<local3[1], local3[2]>>

global_to_local(trf, p, d) == project(point_to_local(trf, p))

local_to_global(trf, mask, p, d) == point_to_global(trf, <<p[1], p[2], 0>>)

InitFrame ==
    /\ CheckerIdle
    /\ helix = NoCall /\ writer = NoCall
    /\ \E trf \in Transforms : \E mask \in Masks : \E d \in Directions :
       \E p \in Coords \X Coords :
          frame = [pc |-> "local", trf |-> trf, mask |-> mask, d |-> d,
                   p |-> p, global |-> <<>>, local |-> <<>>]

LocalToGlobal ==
    /\ frame.pc = "local"
    /\ frame' = [frame EXCEPT
                    !.pc = "global",
                    !.global = local_to_global(frame.trf, frame.mask,
                                               frame.p, frame.d)]
    /\ UNCHANGED <<vars, helix, writer>>

GlobalToLocal ==
    /\ frame.pc = "global"
    /\ frame' = [frame EXCEPT
                    !.pc = "done",
                    !.local = global_to_local(frame.trf, frame.global,
                                              frame.d)]
    /\ UNCHANGED <<vars, helix, writer>>

NextFrame ==
    \/ LocalToGlobal
    \/ GlobalToLocal

SpecFrame == InitFrame /\ [][NextFrame]_allvars

\* point_to_local of the transform inverts its point_to_global
Inverts(trf) ==
    \A q \in Coords \X Coords \X Coords :
        point_to_local(trf, point_to_global(trf, q)) = q

\* C16: for a transform whose point_to_local inverts point_to_global, taking
\* a local point to the global frame and back returns the point; the global
\* point is the image of the local point with third coordinate 0, the local
\* point returned is the first two local coordinates of the global point,
\* and neither result changes with the direction or the mask.
C16_CartesianRoundTrip ==
    /\ frame.pc \in {"global", "done"} =>
          /\ frame.global
               = point_to_global(frame.trf, <<frame.p[1], frame.p[2], 0>>)
          /\ Inverts(frame.trf) =>
                point_to_local(frame.trf, frame.global)
                   = <<frame.p[1], frame.p[2], 0>>
          /\ \A d \in Directions : \A mask \in Masks :
                local_to_global(frame.trf, mask, frame.p, d) = frame.global
    /\ frame.pc = "done" =>
          /\ Inverts(frame.trf) => frame.local = frame.p
          /\ LET local3 == point_to_local(frame.trf, frame.global)
             IN frame.local = <<local3[1], local3[2]>>
          /\ \A d \in Directions :
                global_to_local(frame.trf, frame.global, d) = frame.local

C16_Witness ==
    /\ frame.pc = "done" /\ Inverts(frame.trf)
    /\ frame.trf.translation # <<0, 0, 0>>
    /\ frame.trf.rotation[3] # <<0, 0, 1>>
    /\ frame.p = <<1, -1>>
    /\ frame.global # <<1, -1, 0>>

\* ============================================== check_consistency, continued

VolumeIndexFault == "Incorrect volume index"
SurfaceIndexFault == "Incorrect surface index"

\* the stored index of every volume and of every surface of the flat table
\* is its position
IndicesMatch(d) ==
    /\ \A v \in DOMAIN d.volumes : d.volumes[v].index = v - 1
    /\ \A i \in DOMAIN d.surfaces : d.surfaces[i].index = i - 1

\* C17: a run on a detector in which some volume or some surface of the flat
\* table stores an index different from its position never returns true, and
\* the index comparison of a volume or surface whose index differs ends the
\* run with the index fault of that check; after a true result every volume
\* and every surface of the flat table stores its own position.
C17_IndexMatch ==
    /\ (Finished /\ ~IndicesMatch(det)) => pc = "fault"
    /\ pc = "done" => IndicesMatch(det)
    /\ \A k \in DOMAIN evaluated :
          LET c == evaluated[k] IN
          /\ (c.pass = "vol" /\ c.step = "index"
              /\ det.volumes[c.i].index # c.i - 1)
             => /\ pc = "fault" /\ fault.check = c
                /\ fault.kind = VolumeIndexFault
          /\ (c.pass = "sf" /\ c.step = "index"
              /\ det.surfaces[c.i].index # c.i - 1)
             => /\ pc = "fault" /\ fault.check = c
                /\ fault.kind = SurfaceIndexFault

C17_Witness ==
    /\ pc = "fault" /\ fault.kind = SurfaceIndexFault
    /\ \A v \in DOMAIN det.volumes : det.volumes[v].index = v - 1

\* ------------------------------------------------ detectors with material
\* material maps with no bin, with an empty bin, and with a default slab
\* beside a valid one
ZeroBinMap == [has |-> TRUE, bins |-> <<>>]
EmptyBinMap == [has |-> TRUE, bins |-> << <<>> >>]
EmptyLastBinMap == [has |-> TRUE, bins |-> << <<FALSE>>, <<>> >>]
BadLastSlabMap == [has |-> TRUE, bins |-> << <<TRUE>>, <<TRUE, FALSE>> >>]

Maps ==
    {NoMat, GoodMap, BadSlabMap, ZeroBinMap, EmptyBinMap, EmptyLastBinMap,
     BadLastSlabMap}

\* the detectors that differ from d in the material of one volume or of one
\* surface (d itself included)
MaterialEdits(d) ==
    {d}
    \cup {[d EXCEPT !.volumes[v].mat = m] : v \in DOMAIN d.volumes, m \in Maps}
    \cup {ReplaceSurface(d, i, [d.surfaces[i] EXCEPT !.mat = m]) :
            i \in DOMAIN d.surfaces, m \in Maps}

\* check_consistency is called on a well-formed detector in which up to two
\* volumes or surfaces were given material
InitMaterial ==
    /\ \E b \in Bases : \E d1 \in MaterialEdits(b) :
       \E d \in MaterialEdits(d1) : det = d
    /\ verbose \in BOOLEAN
    /\ pc = "check_empty"
    /\ vi = 0 /\ si = 0 /\ ai = 0
    /\ is_registered = FALSE
    /\ warnings = <<>>
    /\ fault = NoFault
    /\ ret = <<>>
    /\ evaluated = <<>>
    /\ helix = NoCall /\ frame = NoCall /\ writer = NoCall

SpecMaterial == InitMaterial /\ [][Next]_vars

\* the fault a material map asks for: "" for a valid map
MapDefect(mat) ==
    IF mat.bins = <<>> THEN "Empty material grid"
    ELSE IF \E b \in DOMAIN mat.bins : mat.bins[b] = <<>>
         THEN "Empty material bin"
    ELSE IF ~MapValid(mat) THEN "Invalid material found"
    ELSE ""

\* the volume or surface descriptor a check of the run looks at
Checked(d, c) == IF c.pass = "vol" THEN d.volumes[c.i] ELSE d.surfaces[c.i]

\* some volume or surface of the flat table declares a map that is not valid
SomeMapInvalid(d) ==
    \/ \E v \in DOMAIN d.volumes :
          d.volumes[v].mat.has /\ ~MapValid(d.volumes[v].mat)
    \/ \E i \in DOMAIN d.surfaces :
          d.surfaces[i].mat.has /\ ~MapValid(d.surfaces[i].mat)

\* C18: a run on a detector in which a volume or a surface of the flat table
\* declares a material map with no bin, with an empty bin or with a default
\* slab never returns true; the material check of such a volume or surface
\* ends the run with the fault for that defect (no bin before empty bin
\* before default slab); and a material check is made only of a volume or
\* surface that declares material.
C18_MaterialMapValidity ==
    /\ (Finished /\ SomeMapInvalid(det)) => pc = "fault"
    /\ \A k \in DOMAIN evaluated :
          LET c == evaluated[k] IN
          c.step = "material" =>
             /\ Checked(det, c).mat.has
             /\ MapDefect(Checked(det, c).mat) # ""
                => /\ pc = "fault" /\ fault.check = c
                   /\ fault.kind = MapDefect(Checked(det, c).mat)
             /\ (MapDefect(Checked(det, c).mat) = "" /\ Finished)
                => fault.check # c

C18_Witness ==
    /\ pc = "fault" /\ fault.kind = "Empty material bin"
    /\ fault.check.pass = "sf" /\ fault.check.i = 2
    /\ det.surfaces[2].mat = EmptyLastBinMap
    /\ ~det.surfaces[1].mat.has

LookupFault == "Surfaces in volume and detector lookups differ"

\* the entry of an acceleration structure a check of the volume pass visits
Visited(d, c) == Entries(d.volumes[c.i])[c.k]

\* the entry passes the self-check, the owner check and the link check of
\* the volume at position v
PassesEarlierChecks(d, sf, v) ==
    SurfaceIntact(d, sf) /\ sf.volume = d.volumes[v].index /\ LinkValid(d, sf)

\* every entry of every acceleration structure equals the surface the flat
\* table holds at the index of the entry
LookupsAgree(d) ==
    \A v \in DOMAIN d.volumes : \A sf \in Range(Entries(d.volumes[v])) :
        sf.index \in 0..(Len(d.surfaces) - 1) /\ d.surfaces[sf.index + 1] = sf

\* C19: the visit of an acceleration structure entry that passes the
\* self-check, the owner check and the link check ends the run with the
\* lookup fault, naming that entry, exactly when the entry differs from the
\* surface the flat table holds for its barcode; after a true result every
\* entry equals its counterpart of the flat table.
C19_LookupAgreement ==
    /\ pc = "done" => LookupsAgree(det)
    /\ \A k \in DOMAIN evaluated :
          LET c == evaluated[k] IN
          (/\ c.pass = "vol" /\ c.step = "visit"
           /\ PassesEarlierChecks(det, Visited(det, c), c.i))
          => IF det.surfaces[Visited(det, c).index + 1] # Visited(det, c)
             THEN /\ pc = "fault" /\ fault.check = c
                  /\ fault.kind = LookupFault
                  /\ fault.sf = Visited(det, c)
             ELSE fault.check # c

C19_Witness ==
    /\ pc = "fault" /\ fault.kind = LookupFault
    /\ fault.check.i = 2 /\ fault.check.k = 1
    /\ PassesEarlierChecks(det, fault.sf, 2)
    /\ fault.sf.portal # det.surfaces[fault.sf.index + 1].portal

\* ================================================ material_map_writer::to_payload
\* The detector is the sequence of its volumes, a volume the sequence of the
\* surface descriptors vol.surfaces() yields, in the order it yields them; a
\* descriptor is its index and its material link. tracking_volume does not
\* fix that order, so every order is an input.

\* the largest number of surfaces of a detector
MaxWriterSurfs == 3

\* the material links: an invalid link, a link of id e_none, a link to a map
Links == {"invalid", "e_none", "e_map"}

is_invalid(mat_link) == mat_link = "invalid"

\* a writer that takes every surface as the first of its volume
update_offset_always(index, offset) == index

\* if (sf_desc.index() < offset) offset = sf_desc.index()
update_offset(index, offset) == IF index < offset THEN index ELSE offset

\* the links the writer does not look at
empty_link(mat_link) == is_invalid(mat_link) \/ mat_link = "e_none"

\* what grid_writer_t::to_payload is handed for one surface
grid_payload(vol_index, sf_index, offset) ==
    [volume |-> vol_index, sf |-> sf_index, local |-> sf_index - offset]

\* the detectors of n surfaces: the surfaces 0..n-1 in some order, the first
\* c of them in volume 0 and the others in volume 1, each with some link
WriterDetectors(n) ==
    {<< [k \in 1..c |-> [index |-> order[k], material |-> link[k]]],
        [k \in 1..(n - c) |->
            [index |-> order[c + k], material |-> link[c + k]]] >> :
        order \in {f \in [1..n -> 0..(n - 1)] :
                      \A a, b \in 1..n : f[a] = f[b] => a = b},
        link \in [1..n -> Links],
        c \in 0..n}

InitWriter ==
    /\ CheckerIdle
    /\ helix = NoCall /\ frame = NoCall
    /\ \E n \in 1..MaxWriterSurfs : \E vols \in WriterDetectors(n) :
          writer = [pc |-> "volumes", volumes |-> vols, v |-> 0, k |-> 0,
                    offset |-> dindex_invalid, grids_data |-> <<>>]

\* the surfaces of the current volume have all been looked at
SurfacesDone ==
    IF writer.v = 0 THEN TRUE
    ELSE writer.k = Len(writer.volumes[writer.v])

\* the next volume of det.volumes(): its offset starts invalid
WriterNextVolume ==
    /\ writer.pc = "volumes"
    /\ SurfacesDone /\ writer.v < Len(writer.volumes)
    /\ writer' = [writer EXCEPT !.v = @ + 1, !.k = 0,
                                !.offset = dindex_invalid]
    /\ UNCHANGED <<vars, helix, frame>>

\* the next surface of vol.surfaces()
WriterNextSurface ==
    /\ writer.pc = "volumes"
    /\ writer.v > 0 /\ writer.k < Len(writer.volumes[writer.v])
    /\ LET sf_desc == writer.volumes[writer.v][writer.k + 1]
           offset == update_offset(sf_desc.index, writer.offset)
       IN writer' = [writer EXCEPT
                        !.k = @ + 1,
                        !.offset = offset,
                        !.grids_data =
                            IF empty_link(sf_desc.material) THEN @
                            ELSE Append(@, grid_payload(writer.v - 1,
                                                        sf_desc.index,
                                                        offset))]
    /\ UNCHANGED <<vars, helix, frame>>

\* return grids_data
WriterReturn ==
    /\ writer.pc = "volumes"
    /\ SurfacesDone /\ writer.v = Len(writer.volumes)
    /\ writer' = [writer EXCEPT !.pc = "returned"]
    /\ UNCHANGED <<vars, helix, frame>>

NextWriter ==
    \/ WriterNextVolume
    \/ WriterNextSurface
    \/ WriterReturn

SpecWriter == InitWriter /\ [][NextWriter]_allvars

\* the smallest surface index among the surfaces of a volume
MinIndex(sfs) ==
    CHOOSE m \in {sfs[k].index : k \in DOMAIN sfs} :
        \A k \in DOMAIN sfs : m <= sfs[k].index

\* the payload entries written for the surface of index i of volume index v
EntriesFor(v, i) ==
    {e \in DOMAIN writer.grids_data :
        writer.grids_data[e].volume = v /\ writer.grids_data[e].sf = i}

PositionOf(v, i) ==
    CHOOSE k \in DOMAIN writer.volumes[v + 1] :
        writer.volumes[v + 1][k].index = i

SearchFault == "Incorrect volume index on surface (search)"

\* C21: once the per-volume pass has completed without fault, the
\* volume-index fault of the reverse search is never raised: every entry the
\* search visits in the acceleration structures of the volume of the surface
\* searched for has the owning-volume index of that surface, and a run that
\* ends in the search or in the test of its result ends with the
\* not-registered fault.
C21_SearchNeverFaults ==
    /\ fault.kind # SearchFault
    /\ \A k \in DOMAIN evaluated :
          LET c == evaluated[k] IN
          (c.pass = "sf" /\ c.step = "search")
             => SearchEntries(det, det.surfaces[c.i])[c.k].volume
                   = det.surfaces[c.i].volume
    /\ pc = "sf_search" =>
          \A ref \in Range(SearchEntries(det, det.surfaces[si])) :
             ~search_throws(ref, det.surfaces[si])
    /\ (pc = "fault" /\ fault.check.pass = "sf"
        /\ fault.check.step \in {"search", "registered"})
       => fault.kind = NotRegistered /\ fault.check.step = "registered"

C21_Witness ==
    /\ pc = "fault" /\ fault.kind = NotRegistered
    /\ \E k \in DOMAIN evaluated :
          /\ evaluated[k].pass = "sf" /\ evaluated[k].step = "search"
          /\ evaluated[k].i = fault.check.i /\ evaluated[k].k = 2
    /\ Len(det.volumes) = 2

====
